---- MODULE Spec2Model ----
(***************************************************************************)
(* Model of package env (src/env.go): a process-wide registry of typed     *)
(* environment-variable descriptors (String/Int/Float64/Bool), the Parse   *)
(* pass over it, and the conversions it delegates to strconv.              *)
(*                                                                         *)
(* Go strings are modelled as sequences of one-character strings, so that  *)
(* the conversions can be computed character by character.  A formatted    *)
(* message is the sequence of its pieces: the literal pieces of the format *)
(* string, a name or kind as one piece, a raw value as its characters.     *)
(* An int64 is its two's-complement bit pattern held in four 16-bit limbs, *)
(* least significant first.                                                *)
(***************************************************************************)
EXTENDS Integers, Sequences, FiniteSets, TLC

VARIABLES
    envs,       \* the registry: the descriptors in registration order
    value,      \* value[k]: the output cell descriptor k points to
    envValue,   \* envValue[k]: the raw slot descriptor k points to
    environ,    \* the process environment, key -> value ("" when unset)
    help,       \* the --help flag
    exited,     \* the process has called os.Exit
    IntSize,    \* the width of int on the platform the program was built for
    ret,        \* what the last Parse returned (NilErr or the message)
    attempts,   \* the descriptors the last Parse handed to processEnvVar
    streak,     \* Parse calls in a row since the registry or the environment
                \* last changed, counted up to MaxStreak
    listing     \* what the last Help call returned (<<>> before the first)

vars == <<envs, value, envValue, environ, help, exited, IntSize,
          ret, attempts, streak, listing>>

\* a Parse has returned and nothing was registered or set since
fresh == streak > 0

-----------------------------------------------------------------------------
(* Bounds *)

MaxEnvs == 2
MaxStreak == 2
MaxConvEnvs == 1

-----------------------------------------------------------------------------
(* Strings *)

Digits == {"0", "1", "2", "3", "4", "5", "6", "7", "8", "9"}

DigitVal(c) ==
    CASE c = "0" -> 0 [] c = "1" -> 1 [] c = "2" -> 2 [] c = "3" -> 3
      [] c = "4" -> 4 [] c = "5" -> 5 [] c = "6" -> 6 [] c = "7" -> 7
      [] c = "8" -> 8 [] c = "9" -> 9

UpperCase == <<"A", "B", "C", "D", "E", "F", "G", "H", "I", "J", "K", "L", "M",
               "N", "O", "P", "Q", "R", "S", "T", "U", "V", "W", "X", "Y", "Z">>
LowerCase == <<"a", "b", "c", "d", "e", "f", "g", "h", "i", "j", "k", "l", "m",
               "n", "o", "p", "q", "r", "s", "t", "u", "v", "w", "x", "y", "z">>

\* the lower-case form of a letter, any other character as it is
ToLower(c) ==
    IF \E k \in 1..Len(UpperCase) : UpperCase[k] = c
    THEN LowerCase[CHOOSE k \in 1..Len(UpperCase) : UpperCase[k] = c]
    ELSE c

LowerStr(s) == [k \in 1..Len(s) |-> ToLower(s[k])]

\* t occurs in s as a contiguous run of pieces
Contains(s, t) ==
    \E k \in 0..(Len(s) - Len(t)) : SubSeq(s, k + 1, k + Len(t)) = t

-----------------------------------------------------------------------------
(* int64 arithmetic on limbs *)

LimbBase == 65536
LimbHalf == 32768

Zero64 == <<0, 0, 0, 0>>

\* the int64 with small non-negative value n
I64(n) == <<n, 0, 0, 0>>

\* u * 10 + d on an unsigned 64-bit pattern; over reports a carry out of bit 63
MulAdd10(u, d) ==
    LET t1 == u[1] * 10 + d
        t2 == u[2] * 10 + (t1 \div LimbBase)
        t3 == u[3] * 10 + (t2 \div LimbBase)
        t4 == u[4] * 10 + (t3 \div LimbBase)
    IN [n |-> <<t1 % LimbBase, t2 % LimbBase, t3 % LimbBase, t4 % LimbBase>>,
        over |-> (t4 \div LimbBase) # 0]

\* two's-complement negation
Neg64(u) ==
    LET t1 == (LimbBase - 1 - u[1]) + 1
        t2 == (LimbBase - 1 - u[2]) + (t1 \div LimbBase)
        t3 == (LimbBase - 1 - u[3]) + (t2 \div LimbBase)
        t4 == (LimbBase - 1 - u[4]) + (t3 \div LimbBase)
    IN <<t1 % LimbBase, t2 % LimbBase, t3 % LimbBase, t4 % LimbBase>>

\* the conversion int(v) of an int64 v: the identity when int has 64 bits,
\* the low 32 bits (sign-extended here to compare with an int64) when it has 32
ToInt(v, size) ==
    IF size = 64 THEN v
    ELSE <<v[1], v[2],
           IF v[2] >= LimbHalf THEN LimbBase - 1 ELSE 0,
           IF v[2] >= LimbHalf THEN LimbBase - 1 ELSE 0>>

-----------------------------------------------------------------------------
(* strconv *)

RECURSIVE UintLoop(_, _)
\* the digit loop of strconv.ParseUint(s, 10, 64), from accumulator acc
UintLoop(s, acc) ==
    IF acc.err # "nil" \/ s = <<>> THEN acc
    ELSE IF Head(s) \notin Digits THEN [n |-> Zero64, err |-> "syntax"]
    ELSE LET m == MulAdd10(acc.n, DigitVal(Head(s)))
         IN IF m.over THEN [n |-> Zero64, err |-> "range"]
            ELSE UintLoop(Tail(s), [n |-> m.n, err |-> "nil"])

ParseUint(s) ==
    IF s = <<>> THEN [n |-> Zero64, err |-> "syntax"]
    ELSE UintLoop(s, [n |-> Zero64, err |-> "nil"])

\* strconv.ParseInt(s, 10, 64)
ParseInt(s) ==
    IF s = <<>> THEN [n |-> Zero64, err |-> "syntax"]
    ELSE LET neg  == Head(s) = "-"
             body == IF Head(s) \in {"+", "-"} THEN Tail(s) ELSE s
             un   == ParseUint(body)
         IN IF un.err = "syntax" THEN [n |-> Zero64, err |-> "syntax"]
            ELSE IF un.err = "range" THEN [n |-> Zero64, err |-> "range"]
            ELSE IF ~neg /\ un.n[4] >= LimbHalf
                 THEN [n |-> Zero64, err |-> "range"]
            ELSE IF neg /\ (un.n[4] > LimbHalf
                            \/ (un.n[4] = LimbHalf
                                /\ (un.n[1] # 0 \/ un.n[2] # 0 \/ un.n[3] # 0)))
                 THEN [n |-> Zero64, err |-> "range"]
            ELSE [n |-> IF neg THEN Neg64(un.n) ELSE un.n, err |-> "nil"]

\* a ParseBool that folds the case of its argument first
ParseBoolFold(s) ==
    IF LowerStr(s) \in {<<"1">>, <<"t">>, <<"t", "r", "u", "e">>}
        THEN [b |-> TRUE, err |-> "nil"]
    ELSE IF LowerStr(s) \in {<<"0">>, <<"f">>, <<"f", "a", "l", "s", "e">>}
        THEN [b |-> FALSE, err |-> "nil"]
    ELSE [b |-> FALSE, err |-> "syntax"]

\* strconv.ParseBool(s)
ParseBool(s) ==
    IF s \in {<<"1">>, <<"t">>, <<"T">>, <<"T", "R", "U", "E">>,
              <<"t", "r", "u", "e">>, <<"T", "r", "u", "e">>}
        THEN [b |-> TRUE, err |-> "nil"]
    ELSE IF s \in {<<"0">>, <<"f">>, <<"F">>, <<"F", "A", "L", "S", "E">>,
                   <<"f", "a", "l", "s", "e">>, <<"F", "a", "l", "s", "e">>}
        THEN [b |-> FALSE, err |-> "nil"]
    ELSE [b |-> FALSE, err |-> "syntax"]

\* a float64 is kept as the decimal it was rounded from: the finite value
\* (-1)^neg * mant * 10^exp with mant free of trailing zeros, or inf / nan.
\* Literals of at most MaxMantDigits significant digits round to distinct
\* float64 values, so equality of decimals is equality of the floats.
MaxMantDigits == 9

F64(neg, mant, exp) == [cls |-> "num", neg |-> neg, mant |-> mant, exp |-> exp]

FloatZero == F64(FALSE, 0, 0)

RECURSIVE Normalize(_, _)
Normalize(mant, exp) ==
    IF mant = 0 THEN [mant |-> 0, exp |-> 0]
    ELSE IF mant % 10 = 0 THEN Normalize(mant \div 10, exp + 1)
    ELSE [mant |-> mant, exp |-> exp]

RECURSIVE NumDigits(_)
NumDigits(n) == IF n < 10 THEN 1 ELSE 1 + NumDigits(n \div 10)

RECURSIVE Pow10(_)
Pow10(k) == IF k <= 0 THEN 1 ELSE 10 * Pow10(k - 1)

RECURSIVE DigitsVal(_, _)
\* the value of a run of decimal digits, from accumulator acc
DigitsVal(s, acc) ==
    IF s = <<>> THEN acc ELSE DigitsVal(Tail(s), acc * 10 + DigitVal(Head(s)))

AllDigits(s) == \A k \in 1..Len(s) : s[k] \in Digits

\* index of the first piece of s that is in set cs, or Len(s) + 1
FirstIn(s, cs) ==
    IF \E k \in 1..Len(s) : s[k] \in cs
    THEN CHOOSE k \in 1..Len(s) :
             s[k] \in cs /\ \A j \in 1..(k - 1) : s[j] \notin cs
    ELSE Len(s) + 1

\* the largest finite float64 is 1.7976931348623157e308
FloatMaxExp   == 308
FloatMaxLead  == 179769313
FloatMinExp   == -324

FloatSyntaxErr == [f |-> FloatZero, err |-> "syntax"]

FloatInf(neg) == [cls |-> "inf", neg |-> neg, mant |-> 0, exp |-> 0]

FloatNaN == [cls |-> "nan", neg |-> FALSE, mant |-> 0, exp |-> 0]

\* the float64 nearest to (-1)^neg * mant * 10^exp, mant of nd digits and
\* free of trailing zeros: out of range beyond the largest finite float64,
\* zero below the smallest
FloatRound(neg, mant, exp, nd) ==
    IF mant # 0
       /\ (nd + exp - 1 > FloatMaxExp
           \/ (nd + exp - 1 = FloatMaxExp
               /\ mant * Pow10(MaxMantDigits - nd) > FloatMaxLead))
    THEN [f |-> FloatInf(neg), err |-> "range"]
    ELSE IF mant = 0 \/ nd + exp - 1 < FloatMinExp
    THEN [f |-> F64(neg, 0, 0), err |-> "nil"]
    ELSE [f |-> F64(neg, mant, exp), err |-> "nil"]

FloatOf(neg, nm) == FloatRound(neg, nm.mant, nm.exp, NumDigits(nm.mant))

\* a literal of integer digits ipart, fraction digits fpart and, when hasExp,
\* exponent digits edig of sign eneg
FloatFields(neg, ipart, fpart, hasExp, eneg, edig) ==
    IF ~AllDigits(ipart) \/ ~AllDigits(fpart) \/ Len(ipart) + Len(fpart) = 0
    THEN FloatSyntaxErr
    ELSE IF hasExp /\ (edig = <<>> \/ ~AllDigits(edig))
    THEN FloatSyntaxErr
    ELSE FloatOf(neg,
                 Normalize(DigitsVal(ipart \o fpart, 0),
                           (IF eneg THEN 0 - DigitsVal(edig, 0)
                            ELSE DigitsVal(edig, 0)) - Len(fpart)))

\* mantissa text mpart with its point at dpos, exponent text epart
FloatParts(neg, mpart, dpos, hasExp, epart) ==
    FloatFields(neg,
                SubSeq(mpart, 1, dpos - 1),
                SubSeq(mpart, dpos + 1, Len(mpart)),
                hasExp,
                epart # <<>> /\ Head(epart) = "-",
                IF epart # <<>> /\ Head(epart) \in {"+", "-"}
                THEN Tail(epart) ELSE epart)

FloatSplit(neg, mpart, hasExp, epart) ==
    FloatParts(neg, mpart, FirstIn(mpart, {"."}), hasExp, epart)

\* the literal after its sign, with its exponent marker at epos
FloatBody(neg, signed, body, low, epos) ==
    IF low \in {<<"i", "n", "f">>, <<"i", "n", "f", "i", "n", "i", "t", "y">>}
    THEN [f |-> FloatInf(neg), err |-> "nil"]
    ELSE IF ~signed /\ low = <<"n", "a", "n">>
    THEN [f |-> FloatNaN, err |-> "nil"]
    ELSE FloatSplit(neg, SubSeq(body, 1, epos - 1), epos <= Len(body),
                    SubSeq(body, epos + 1, Len(body)))

FloatSigned(neg, signed, body) ==
    FloatBody(neg, signed, body, LowerStr(body), FirstIn(body, {"e", "E"}))

\* strconv.ParseFloat(s, 64) on decimal literals and the special forms
ParseFloat(s) ==
    IF s = <<>> THEN FloatSyntaxErr
    ELSE FloatSigned(Head(s) = "-", Head(s) \in {"+", "-"},
                     IF Head(s) \in {"+", "-"} THEN Tail(s) ELSE s)

-----------------------------------------------------------------------------
(* Inputs *)

Names == {"PORT", "HOST"}

HelpTexts == {"help"}

Empty   == <<>>
V8080   == <<"8", "0", "8", "0">>
VTrue   == <<"t", "r", "u", "e">>
VAbc    == <<"a", "b", "c">>
VLocal  == <<"l", "o", "c", "a", "l">>

\* values the environment takes for each key
Values(name) ==
    IF name = "PORT" THEN {Empty, V8080, VAbc} ELSE {Empty, VTrue, VAbc}

\* the keys the program declares with each kind
StringNames == {"HOST"}
IntNames    == {"PORT"}
FloatNames  == {"PORT"}
BoolNames   == {"HOST"}

StringDefaults == {VLocal}
IntDefaults    == {I64(9090)}
FloatDefaults  == {F64(FALSE, 3, 1)}
BoolDefaults   == {FALSE}

-----------------------------------------------------------------------------
(* The registry *)

NilErr == <<>>

\* os.Getenv: the value of the key, "" when unset
Getenv(name) == environ[name]

\* the zero value new(T) holds
ZeroOf(varType) ==
    CASE varType = "string"  -> Empty
      [] varType = "integer" -> Zero64
      [] varType = "float"   -> FloatZero
      [] varType = "boolean" -> FALSE

\* *strconv.NumError as a message
NumError(fn, raw, why) ==
    <<"strconv.", fn, ": parsing ", "\"">> \o raw \o <<"\"", ": ", why>>

ErrText(tag) == IF tag = "range" THEN "value out of range" ELSE "invalid syntax"

\* a setValue that clears the cell when the conversion fails
setValueClear(varType, cell, b) ==
    CASE varType = "string" -> [cell |-> b, err |-> NilErr]
      [] varType = "integer" ->
            LET r == ParseInt(b)
            IN IF r.err # "nil"
               THEN [cell |-> ZeroOf(varType),
                     err |-> NumError("ParseInt", b, ErrText(r.err))]
               ELSE [cell |-> ToInt(r.n, IntSize), err |-> NilErr]
      [] varType = "float" ->
            LET r == ParseFloat(b)
            IN IF r.err # "nil"
               THEN [cell |-> ZeroOf(varType),
                     err |-> NumError("ParseFloat", b, ErrText(r.err))]
               ELSE [cell |-> r.f, err |-> NilErr]
      [] varType = "boolean" ->
            LET r == ParseBool(b)
            IN IF r.err # "nil"
               THEN [cell |-> ZeroOf(varType),
                     err |-> NumError("ParseBool", b, ErrText(r.err))]
               ELSE [cell |-> r.b, err |-> NilErr]

\* the setValue closure of each kind: the cell after the call and the error
setValue(varType, cell, b) ==
    CASE varType = "string" -> [cell |-> b, err |-> NilErr]
      [] varType = "integer" ->
            LET r == ParseInt(b)
            IN IF r.err # "nil"
               THEN [cell |-> cell,
                     err |-> NumError("ParseInt", b, ErrText(r.err))]
               ELSE [cell |-> ToInt(r.n, IntSize), err |-> NilErr]
      [] varType = "float" ->
            LET r == ParseFloat(b)
            IN IF r.err # "nil"
               THEN [cell |-> cell,
                     err |-> NumError("ParseFloat", b, ErrText(r.err))]
               ELSE [cell |-> r.f, err |-> NilErr]
      [] varType = "boolean" ->
            LET r == ParseBool(b)
            IN IF r.err # "nil"
               THEN [cell |-> cell,
                     err |-> NumError("ParseBool", b, ErrText(r.err))]
               ELSE [cell |-> r.b, err |-> NilErr]

\* a default that is applied only to a cell still holding its zero value
setDefaultIfZero(varType, cell, b) ==
    IF cell = ZeroOf(varType) THEN b ELSE cell

\* the setDefault closure of each kind: the cell after the call
setDefault(varType, cell, b) == b

\* a registration that zeroes every output cell
RegisterReset(varType, name, required, defaultValue, helpText) ==
    /\ ~exited
    /\ Len(envs) < MaxEnvs
    /\ envs' = Append(envs, [name |-> name, varType |-> varType,
                             required |-> required,
                             defaultValue |-> defaultValue,
                             help |-> helpText])
    /\ value' = Append([k \in 1..Len(envs) |-> ZeroOf(envs[k].varType)],
                       ZeroOf(varType))
    /\ envValue' = Append(envValue, Empty)
    /\ streak' = 0
    /\ UNCHANGED <<environ, help, exited, IntSize, ret, attempts, listing>>

Register(varType, name, required, defaultValue, helpText) ==
    /\ ~exited
    /\ Len(envs) < MaxEnvs
    /\ envs' = Append(envs, [name |-> name, varType |-> varType,
                             required |-> required,
                             defaultValue |-> defaultValue,
                             help |-> helpText])
    /\ value' = Append(value, ZeroOf(varType))
    /\ envValue' = Append(envValue, Empty)
    /\ streak' = 0
    /\ UNCHANGED <<environ, help, exited, IntSize, ret, attempts, listing>>

String ==
    \E name \in StringNames, required \in BOOLEAN,
       defaultValue \in StringDefaults, helpText \in HelpTexts :
        Register("string", name, required, defaultValue, helpText)

RegInt ==
    \E name \in IntNames, required \in BOOLEAN,
       defaultValue \in IntDefaults, helpText \in HelpTexts :
        Register("integer", name, required, defaultValue, helpText)

Float64 ==
    \E name \in FloatNames, required \in BOOLEAN,
       defaultValue \in FloatDefaults, helpText \in HelpTexts :
        Register("float", name, required, defaultValue, helpText)

Bool ==
    \E name \in BoolNames, required \in BOOLEAN,
       defaultValue \in BoolDefaults, helpText \in HelpTexts :
        Register("boolean", name, required, defaultValue, helpText)

-----------------------------------------------------------------------------
(* Parse *)

\* processEnvVar applying the default before the required check
processEnvVarDefaultFirst(k, cells, raws) ==
    LET e    == envs[k]
        raw  == Getenv(e.name)
        raw1 == [raws EXCEPT ![k] = raw]
    IN IF raw = Empty
       THEN [value |-> [cells EXCEPT
                          ![k] = setDefault(e.varType, cells[k], e.defaultValue)],
             envValue |-> raw1,
             err |-> IF e.required THEN <<e.name, " should be provided">>
                     ELSE NilErr]
       ELSE LET r == setValue(e.varType, cells[k], raw)
            IN [value |-> [cells EXCEPT ![k] = r.cell],
                envValue |-> raw1, err |-> r.err]

\* processEnvVar keeping a raw value it has already captured
processEnvVarCached(k, cells, raws) ==
    LET e    == envs[k]
        raw  == IF raws[k] # Empty THEN raws[k] ELSE Getenv(e.name)
        raw1 == [raws EXCEPT ![k] = raw]
    IN IF raw = Empty /\ ~e.required
       THEN [value |-> [cells EXCEPT
                          ![k] = setDefault(e.varType, cells[k], e.defaultValue)],
             envValue |-> raw1, err |-> NilErr]
       ELSE IF raw = Empty /\ e.required
       THEN [value |-> cells, envValue |-> raw1,
             err |-> <<e.name, " should be provided">>]
       ELSE LET r == setValue(e.varType, cells[k], raw)
            IN [value |-> [cells EXCEPT ![k] = r.cell],
                envValue |-> raw1, err |-> r.err]

\* processEnvVar on descriptor k, given the cells and raw slots so far
processEnvVar(k, cells, raws) ==
    LET e    == envs[k]
        raw  == Getenv(e.name)
        raw1 == [raws EXCEPT ![k] = raw]
    IN IF raw = Empty /\ ~e.required
       THEN [value |-> [cells EXCEPT
                          ![k] = setDefault(e.varType, cells[k], e.defaultValue)],
             envValue |-> raw1, err |-> NilErr]
       ELSE IF raw = Empty /\ e.required
       THEN [value |-> cells, envValue |-> raw1,
             err |-> <<e.name, " should be provided">>]
       ELSE LET r == setValue(e.varType, cells[k], raw)
            IN [value |-> [cells EXCEPT ![k] = r.cell],
                envValue |-> raw1, err |-> r.err]

\* an error line that leaves the raw value out
ErrorLineNoRaw(name, varType, raw) ==
    <<"expected: ", name, " type: ", varType, " got: ">>

\* fmt.Sprintf("expected: %s type: %s got: %s", name, varType, raw)
ErrorLine(name, varType, raw) ==
    <<"expected: ", name, " type: ", varType, " got: ">> \o raw

RECURSIVE ParseLoopBreak(_, _)
\* the loop of Parse leaving at the first failure
ParseLoopBreak(k, st) ==
    IF k > Len(envs) \/ st.errors # <<>> THEN st
    ELSE LET r == processEnvVar(k, st.value, st.envValue)
         IN ParseLoopBreak(k + 1,
              [value    |-> r.value,
               envValue |-> r.envValue,
               errors   |-> IF r.err # NilErr
                            THEN Append(st.errors,
                                        ErrorLine(envs[k].name, envs[k].varType,
                                                  r.envValue[k]))
                            ELSE st.errors,
               attempts |-> Append(st.attempts,
                                   [idx |-> k, failed |-> r.err # NilErr])])

RECURSIVE ParseLoop(_, _)
\* the loop of Parse from descriptor k on; st carries the cells, the raw
\* slots, the errors collected and the descriptors attempted so far
ParseLoop(k, st) ==
    IF k > Len(envs) THEN st
    ELSE LET r == processEnvVar(k, st.value, st.envValue)
         IN ParseLoop(k + 1,
              [value    |-> r.value,
               envValue |-> r.envValue,
               errors   |-> IF r.err # NilErr
                            THEN Append(st.errors,
                                        ErrorLine(envs[k].name, envs[k].varType,
                                                  r.envValue[k]))
                            ELSE st.errors,
               attempts |-> Append(st.attempts,
                                   [idx |-> k, failed |-> r.err # NilErr])])

RECURSIVE JoinBlank(_, _)
\* a join that separates with a blank whatever sep is
JoinBlank(elems, sep) ==
    IF elems = <<>> THEN <<>>
    ELSE IF Len(elems) = 1 THEN elems[1]
    ELSE elems[1] \o <<" ">> \o JoinBlank(Tail(elems), sep)

RECURSIVE Join(_, _)
\* strings.Join
Join(elems, sep) ==
    IF elems = <<>> THEN <<>>
    ELSE IF Len(elems) = 1 THEN elems[1]
    ELSE elems[1] \o <<sep>> \o Join(Tail(elems), sep)

\* Parse with --help given: the listing is printed and the process exits
ParseHelp ==
    /\ ~exited
    /\ help
    /\ exited' = TRUE
    /\ UNCHANGED <<envs, value, envValue, environ, help, IntSize,
                   ret, attempts, streak, listing>>

\* a Parse whose error list outlives the call
ParseKeepErrors ==
    /\ ~exited
    /\ ~help
    /\ LET st == ParseLoop(1, [value |-> value, envValue |-> envValue,
                               errors |-> IF ret = NilErr THEN <<>>
                                          ELSE <<ret>>,
                               attempts |-> <<>>])
       IN /\ value' = st.value
          /\ envValue' = st.envValue
          /\ attempts' = st.attempts
          /\ ret' = IF Len(st.errors) > 0 THEN Join(st.errors, "\n")
                    ELSE NilErr
    /\ streak' = IF streak < MaxStreak THEN streak + 1 ELSE streak
    /\ UNCHANGED <<envs, environ, help, exited, IntSize, listing>>

Parse ==
    /\ ~exited
    /\ ~help
    /\ LET st == ParseLoop(1, [value |-> value, envValue |-> envValue,
                               errors |-> <<>>, attempts |-> <<>>])
       IN /\ value' = st.value
          /\ envValue' = st.envValue
          /\ attempts' = st.attempts
          /\ ret' = IF Len(st.errors) > 0 THEN Join(st.errors, "\n")
                    ELSE NilErr
    /\ streak' = IF streak < MaxStreak THEN streak + 1 ELSE streak
    /\ UNCHANGED <<envs, environ, help, exited, IntSize, listing>>

\* os.Setenv / os.Unsetenv by the surrounding program
SetenvTo(name, v) ==
    /\ ~exited
    /\ v # environ[name]
    /\ environ' = [environ EXCEPT ![name] = v]
    /\ streak' = 0
    /\ UNCHANGED <<envs, value, envValue, help, exited, IntSize,
                   ret, attempts, listing>>

Setenv == \E name \in Names : \E v \in Values(name) : SetenvTo(name, v)

Init ==
    /\ envs = <<>>
    /\ value = <<>>
    /\ envValue = <<>>
    /\ environ \in {f \in [Names -> Values("PORT") \cup Values("HOST")] :
                       \A name \in Names : f[name] \in Values(name)}
    /\ help \in BOOLEAN
    /\ exited = FALSE
    /\ IntSize = 64
    /\ ret = NilErr
    /\ attempts = <<>>
    /\ streak = 0
    /\ listing = <<>>

Next == String \/ RegInt \/ Float64 \/ Bool \/ Parse \/ ParseHelp \/ Setenv

Spec == Init /\ [][Next]_vars

-----------------------------------------------------------------------------
(* The conversions on their own: descriptors on the key PORT alone, the      *)
(* environment giving it literals of every shape.                            *)

\* integer literals around the edges of 32 and 64 bits
IntLiterals ==
    {<<>>, <<"8", "0", "8", "0">>, <<"-", "1">>, <<"+", "7">>,
     <<"2", "1", "4", "7", "4", "8", "3", "6", "4", "7">>,
     <<"2", "1", "4", "7", "4", "8", "3", "6", "4", "8">>,
     <<"-", "2", "1", "4", "7", "4", "8", "3", "6", "4", "8">>,
     <<"-", "2", "1", "4", "7", "4", "8", "3", "6", "4", "9">>,
     <<"4", "2", "9", "4", "9", "6", "7", "2", "9", "6">>,
     <<"9", "2", "2", "3", "3", "7", "2", "0", "3", "6", "8", "5", "4", "7", "7", "5", "8", "0", "7">>,
     <<"-", "9", "2", "2", "3", "3", "7", "2", "0", "3", "6", "8", "5", "4", "7", "7", "5", "8", "0", "8">>,
     <<"9", "2", "2", "3", "3", "7", "2", "0", "3", "6", "8", "5", "4", "7", "7", "5", "8", "0", "8">>,
     <<"1", "2", "a">>}

\* boolean spellings, numbers and words
ConvLiterals ==
    {<<>>, <<"t", "r", "u", "e">>, <<"T", "R", "U", "E">>,
     <<"T", "r", "u", "e">>, <<"t", "R", "u", "E">>,
     <<"f", "a", "l", "s", "e">>, <<"F", "A", "L", "S", "E">>,
     <<"F", "a", "l", "s", "e">>, <<"f", "A", "l", "S", "e">>,
     <<"m", "a", "y", "b", "e">>, <<"1">>, <<"0">>, <<"a", "b", "c">>,
     <<"1", "2", "a">>, <<"1", ".", "5">>, <<"8", "0", "8", "0">>}

DefaultOf(varType) ==
    CASE varType = "string"  -> VLocal
      [] varType = "integer" -> I64(9090)
      [] varType = "float"   -> F64(FALSE, 3, 1)
      [] varType = "boolean" -> FALSE

\* a declaration of the given kinds on PORT
Declare(kinds) ==
    /\ Len(envs) < MaxConvEnvs
    /\ \E varType \in kinds, required \in BOOLEAN :
          Register(varType, "PORT", required, DefaultOf(varType), "help")

DeclareInt == Declare({"integer"})

DeclareConv == Declare({"integer", "float", "boolean"})

SetenvInt == \E v \in IntLiterals : SetenvTo("PORT", v)

SetenvConv == \E v \in ConvLiterals : SetenvTo("PORT", v)

InitOn(literals, sizes) ==
    /\ envs = <<>>
    /\ value = <<>>
    /\ envValue = <<>>
    /\ environ \in {f \in [Names -> literals] : f["HOST"] = Empty}
    /\ help = FALSE
    /\ exited = FALSE
    /\ IntSize \in sizes
    /\ ret = NilErr
    /\ attempts = <<>>
    /\ streak = 0
    /\ listing = <<>>

InitInt == InitOn(IntLiterals, {32, 64})

NextInt == DeclareInt \/ SetenvInt \/ Parse

SpecInt == InitInt /\ [][NextInt]_vars

InitConv == InitOn(ConvLiterals, {64})

NextConv == DeclareConv \/ SetenvConv \/ Parse

SpecConv == InitConv /\ [][NextConv]_vars

-----------------------------------------------------------------------------
(* The help listing *)

DigitChars == <<"0", "1", "2", "3", "4", "5", "6", "7", "8", "9">>

RECURSIVE DigitsOf(_)
\* the decimal digits of a natural number
DigitsOf(n) ==
    IF n < 10 THEN <<DigitChars[n + 1]>>
    ELSE DigitsOf(n \div 10) \o <<DigitChars[(n % 10) + 1]>>

\* an unsigned 64-bit pattern divided by ten: quotient and remainder
DivMod10(u) ==
    LET r4 == u[4] % 10
        t3 == r4 * LimbBase + u[3]
        r3 == t3 % 10
        t2 == r3 * LimbBase + u[2]
        r2 == t2 % 10
        t1 == r2 * LimbBase + u[1]
    IN [q |-> <<t1 \div 10, t2 \div 10, t3 \div 10, u[4] \div 10>>,
        r |-> t1 % 10]

RECURSIVE FormatUint(_)
\* strconv.FormatUint(u, 10)
FormatUint(u) ==
    LET d == DivMod10(u)
    IN IF d.q = Zero64 THEN <<DigitChars[d.r + 1]>>
       ELSE FormatUint(d.q) \o <<DigitChars[d.r + 1]>>

\* %v of an integer: strconv.FormatInt(v, 10)
FormatInt(v) ==
    IF v[4] >= LimbHalf THEN <<"-">> \o FormatUint(Neg64(v))
    ELSE FormatUint(v)

\* %v of a bool
FormatBool(b) ==
    IF b THEN <<"t", "r", "u", "e">> ELSE <<"f", "a", "l", "s", "e">>

\* the %e form of the shortest digits d with decimal exponent x
FormatExp(d, x) ==
    <<Head(d)>> \o (IF Len(d) > 1 THEN <<".">> \o Tail(d) ELSE <<>>)
        \o <<"e", IF x < 0 THEN "-" ELSE "+">>
        \o (IF x > -10 /\ x < 10 THEN <<"0">> ELSE <<>>)
        \o DigitsOf(IF x < 0 THEN -x ELSE x)

\* the %f form of the shortest digits d with dp of them before the point
FormatFix(d, dp) ==
    LET nd == Len(d)
        at(k) == IF k >= 1 /\ k <= nd THEN d[k] ELSE "0"
    IN (IF dp > 0 THEN [k \in 1..dp |-> at(k)] ELSE <<"0">>)
       \o (IF nd > dp THEN <<".">> \o [k \in 1..(nd - dp) |-> at(dp + k)]
           ELSE <<>>)

\* the exponent from which %g of a shortest float switches to the %e form
FloatExpForm == 6

\* %v of a float64: strconv.FormatFloat(f, 'g', -1, 64)
FormatFloat(f) ==
    IF f.cls = "nan" THEN <<"N", "a", "N">>
    ELSE IF f.cls = "inf"
        THEN <<IF f.neg THEN "-" ELSE "+", "I", "n", "f">>
    ELSE LET d  == DigitsOf(f.mant)
             dp == IF f.mant = 0 THEN 1 ELSE Len(d) + f.exp
             body == IF dp - 1 < -4 \/ dp - 1 >= FloatExpForm
                     THEN FormatExp(d, dp - 1)
                     ELSE FormatFix(d, dp)
         IN (IF f.neg THEN <<"-">> ELSE <<>>) \o body

\* fmt.Sprintf("%v", v) of a default of the given kind
FormatV(varType, v) ==
    CASE varType = "string"  -> v
      [] varType = "integer" -> FormatInt(v)
      [] varType = "float"   -> FormatFloat(v)
      [] varType = "boolean" -> FormatBool(v)

HelpHeader == "Environment variables:"

\* the two lines Help appends for one descriptor, with the quotes left off
HelpEntryBare(e) ==
    LET def == FormatV(e.varType, e.defaultValue)
    IN << <<"  ", e.name, " default: ">>
              \o (IF def = <<>> THEN <<"no default">> ELSE def),
          <<"       ">> >>

\* the two lines Help appends for one descriptor
HelpEntry(e) ==
    LET def == <<"'">> \o FormatV(e.varType, e.defaultValue) \o <<"'">>
    IN << <<"  ", e.name, " default: ">>
              \o (IF def = <<"'", "'">> THEN <<"no default">> ELSE def),
          <<"       ">> >>

RECURSIVE HelpLoop(_, _)
\* the loop of Help over the descriptors from the k-th on, h the lines so far
HelpLoop(k, h) ==
    IF k > Len(envs) THEN h ELSE HelpLoop(k + 1, h \o HelpEntry(envs[k]))

\* Help(): the listing as one string
Help == Join(HelpLoop(1, << <<HelpHeader>> >>), "\n")

\* a call of Help by the surrounding program
CallHelp ==
    /\ ~exited
    /\ listing' = Help
    /\ UNCHANGED <<envs, value, envValue, environ, help, exited, IntSize,
                   ret, attempts, streak>>

V15 == F64(FALSE, 15, -1)
VMinus1 == Neg64(I64(1))

\* the defaults the listing is exercised with
HelpDefaults(varType) ==
    CASE varType = "string"  -> {Empty, VLocal}
      [] varType = "integer" -> {I64(9090), VMinus1}
      [] varType = "float"   -> {F64(FALSE, 3, 1), V15}
      [] varType = "boolean" -> {TRUE}

\* the key each kind is declared on
KeyOf(varType) ==
    IF varType \in {"string", "boolean"} THEN "HOST" ELSE "PORT"

\* a declaration of any kind
DeclareHelp ==
    \E varType \in {"string", "integer", "float", "boolean"},
       required \in BOOLEAN :
        \E defaultValue \in HelpDefaults(varType) :
            Register(varType, KeyOf(varType), required, defaultValue, "help")

InitHelp == InitOn({Empty, V8080}, {64})

NextHelp == DeclareHelp \/ CallHelp \/ Parse

SpecHelp == InitHelp /\ [][NextHelp]_vars

-----------------------------------------------------------------------------
(* What one descriptor should come to, read off the environment *)

RawOf(k) == environ[envs[k].name]

Convertible(varType, raw) ==
    CASE varType = "string"  -> TRUE
      [] varType = "integer" -> ParseInt(raw).err = "nil"
      [] varType = "float"   -> ParseFloat(raw).err = "nil"
      [] varType = "boolean" -> ParseBool(raw).err = "nil"

Converted(varType, raw) ==
    CASE varType = "string"  -> raw
      [] varType = "integer" -> ParseInt(raw).n
      [] varType = "float"   -> ParseFloat(raw).f
      [] varType = "boolean" -> ParseBool(raw).b

Missing(k) == envs[k].required /\ RawOf(k) = Empty

Defaulted(k) == ~envs[k].required /\ RawOf(k) = Empty

Valid(k) == RawOf(k) # Empty /\ Convertible(envs[k].varType, RawOf(k))

Invalid(k) == RawOf(k) # Empty /\ ~Convertible(envs[k].varType, RawOf(k))

Failing(k) == Missing(k) \/ Invalid(k)

\* the failing descriptors, in registration order
FailingSeq == SelectSeq([k \in 1..Len(envs) |-> k], Failing)

RECURSIVE Lines(_)
\* the lines of a message: its pieces split at the newlines
Lines(msg) ==
    LET nl == FirstIn(msg, {"\n"})
    IN IF nl > Len(msg) THEN <<msg>>
       ELSE <<SubSeq(msg, 1, nl - 1)>> \o Lines(SubSeq(msg, nl + 1, Len(msg)))

-----------------------------------------------------------------------------
(* Claims *)

\* C1: Parse never short-circuits.  After a Parse every registered descriptor
\* was handed to processEnvVar exactly once, in registration order, and every
\* descriptor whose environment value is non-empty and valid has its cell set
\* to the converted value, also when Parse returned an error for another one.
C1_NoShortCircuit ==
    fresh =>
        /\ Len(attempts) = Len(envs)
        /\ \A k \in 1..Len(envs) :
              /\ attempts[k].idx = k
              /\ Valid(k) => value[k] = Converted(envs[k].varType, RawOf(k))

\* PORT=8080 is stored although an earlier, required HOST is unset
C1_Witness ==
    /\ fresh
    /\ ret # NilErr
    /\ \E j, k \in 1..Len(envs) :
          /\ j < k
          /\ Missing(j)
          /\ envs[k].varType = "integer"
          /\ RawOf(k) = V8080
          /\ value[k] = I64(8080)

\* C2: Parse returns an error exactly when some descriptor failed, and the
\* message has one line per failing descriptor, in registration order, each
\* naming its descriptor, and no line for a descriptor that succeeded.
C2_ErrorIffFailure ==
    fresh =>
        /\ (ret # NilErr) <=> (\E k \in 1..Len(envs) : Failing(k))
        /\ ret # NilErr =>
              /\ Len(Lines(ret)) = Len(FailingSeq)
              /\ \A j \in 1..Len(FailingSeq) :
                    /\ Contains(Lines(ret)[j], <<envs[FailingSeq[j]].name>>)
                    /\ Contains(Lines(ret)[j], <<envs[FailingSeq[j]].varType>>)

\* two failing descriptors: an error of two lines
C2_Witness ==
    /\ fresh
    /\ Len(envs) = 2
    /\ Failing(1) /\ Failing(2)
    /\ Len(Lines(ret)) = 2

\* C3: a descriptor of any kind with required = false whose environment value
\* is unset or empty has, after Parse, its cell equal to its default and
\* counts as no failure, whatever the cell held before.
C3_DefaultApplied ==
    [][streak' > 0 =>
          \A k \in 1..Len(envs) :
              Defaulted(k) =>
                  /\ value'[k] = envs[k].defaultValue
                  /\ ~attempts'[k].failed]_vars

\* one descriptor of each kind at its default after a Parse that succeeded
C3_Witness ==
    /\ fresh
    /\ ret = NilErr
    /\ \E j, k \in 1..Len(envs) :
          /\ envs[j].varType \in {"string", "boolean"}
          /\ envs[k].varType \in {"integer", "float"}
          /\ Defaulted(j) /\ value[j] = envs[j].defaultValue
          /\ Defaulted(k) /\ value[k] = envs[k].defaultValue

\* C4: a descriptor with required = true whose environment value is unset or
\* empty makes Parse return an error and leaves its cell as it was before the
\* call; its default is not written.
C4_RequiredMissing ==
    [][streak' > 0 =>
          \A k \in 1..Len(envs) :
              Missing(k) =>
                  /\ ret' # NilErr
                  /\ attempts'[k].failed
                  /\ value'[k] = value[k]]_vars

\* a required descriptor, unset, keeps the value an earlier Parse converted
C4_Witness ==
    /\ fresh
    /\ ret # NilErr
    /\ \E k \in 1..Len(envs) :
          /\ Missing(k)
          /\ value[k] # ZeroOf(envs[k].varType)
          /\ value[k] # envs[k].defaultValue

\* C5: an integer descriptor whose environment value is a valid base-10
\* literal in the 64-bit range has, after Parse, a cell equal to the parsed
\* value, or the narrowing to int is reported as a failure, also where int
\* has 32 bits.
C5_IntValueKept ==
    fresh =>
        \A k \in 1..Len(envs) :
            (/\ envs[k].varType = "integer"
             /\ RawOf(k) # Empty
             /\ ParseInt(RawOf(k)).err = "nil")
            => \/ value[k] = ParseInt(RawOf(k)).n
               \/ attempts[k].failed

\* C6 as stated: a value a Parse converted from the environment does not
\* survive the next Parse when the environment value of its key differs.
C6_NoValueSurvives ==
    [][streak' > 0 =>
          \A k \in 1..Len(envs) :
              (/\ envValue[k] # Empty
               /\ Convertible(envs[k].varType, envValue[k])
               /\ value[k] = Converted(envs[k].varType, envValue[k])
               /\ RawOf(k) # envValue[k])
              => value'[k] # value[k]]_vars

\* C6 as amended: after a Parse every descriptor that Parse handled without
\* failure holds what its environment snapshot gives (the converted value, or
\* the default when empty and not required), whatever an earlier call wrote;
\* a descriptor that failed in the call keeps the cell the earlier call left.
C6_SnapshotOnSuccess ==
    [][streak' > 0 =>
          \A k \in 1..Len(envs) :
              /\ Valid(k) =>
                    value'[k] = Converted(envs[k].varType, RawOf(k))
              /\ Defaulted(k) => value'[k] = envs[k].defaultValue
              /\ Failing(k) => value'[k] = value[k]
              /\ envValue'[k] = RawOf(k)]_vars

\* two descriptors on one key after its value was unset between two calls:
\* the optional one shows its default, the required one the earlier 8080
C6_Witness ==
    /\ fresh
    /\ \E j, k \in 1..Len(envs) :
          /\ envs[j].name = envs[k].name
          /\ Missing(j)
          /\ envs[j].varType = "integer"
          /\ value[j] = I64(8080)
          /\ Defaulted(k)
          /\ value[k] = envs[k].defaultValue

\* C7: a Parse that follows a Parse with the same environment and registry
\* leaves every cell as it was and returns the same result; failures of the
\* earlier call are not accumulated.
C7_Idempotent ==
    [][(streak > 0 /\ streak' > 0) =>
          /\ value' = value
          /\ ret' = ret
          /\ envValue' = envValue]_vars

\* a second Parse in a row has returned, with a failure, a conversion and a
\* default among its descriptors
C7_Witness ==
    /\ streak = 2
    /\ ret # NilErr
    /\ \E j, k \in 1..Len(envs) :
          /\ Failing(j)
          /\ Valid(k) \/ Defaulted(k)

\* C8: the line reported for a required descriptor whose value is empty is
\* "missing required variable <name>", not the line of a conversion failure.
C8_MissingMessage ==
    fresh =>
        \A j \in 1..Len(FailingSeq) :
            Missing(FailingSeq[j]) =>
                Lines(ret)[j]
                    = <<"missing required variable ", envs[FailingSeq[j]].name>>

TrueSpellings ==
    {<<"1">>, <<"t">>, <<"T">>, <<"T", "R", "U", "E">>,
     <<"t", "r", "u", "e">>, <<"T", "r", "u", "e">>}

FalseSpellings ==
    {<<"0">>, <<"f">>, <<"F">>, <<"F", "A", "L", "S", "E">>,
     <<"f", "a", "l", "s", "e">>, <<"F", "a", "l", "s", "e">>}

VMaybe == <<"m", "a", "y", "b", "e">>

\* C10 as stated: every casing of "true" sets a boolean cell to true, every
\* casing of "false" sets it to false, and "maybe" is rejected.
C10_CaseInsensitive ==
    fresh =>
        \A k \in 1..Len(envs) :
            envs[k].varType = "boolean" =>
                /\ LowerStr(RawOf(k)) = <<"t", "r", "u", "e">>
                      => (value[k] = TRUE /\ ~attempts[k].failed)
                /\ LowerStr(RawOf(k)) = <<"f", "a", "l", "s", "e">>
                      => (value[k] = FALSE /\ ~attempts[k].failed)
                /\ RawOf(k) = VMaybe => attempts[k].failed

\* C10 as amended: the casings true, TRUE, True (and 1, t, T) set a boolean
\* cell to true and false, FALSE, False (and 0, f, F) set it to false; every
\* other non-empty value, a mixed casing such as tRuE or fAlSe and "maybe"
\* among them, is rejected with a conversion failure.
C10_BoolSpellings ==
    fresh =>
        \A k \in 1..Len(envs) :
            (envs[k].varType = "boolean" /\ RawOf(k) # Empty) =>
                /\ RawOf(k) \in TrueSpellings
                      => (value[k] = TRUE /\ ~attempts[k].failed)
                /\ RawOf(k) \in FalseSpellings
                      => (value[k] = FALSE /\ ~attempts[k].failed)
                /\ RawOf(k) \notin TrueSpellings \cup FalseSpellings
                      => attempts[k].failed

\* a boolean descriptor has rejected tRuE
C10_Witness ==
    /\ fresh
    /\ \E k \in 1..Len(envs) :
          /\ envs[k].varType = "boolean"
          /\ RawOf(k) = <<"t", "R", "u", "E">>
          /\ attempts[k].failed
          /\ ret # NilErr

\* C11: Help returns the header line followed, for each descriptor in
\* registration order, by the line "  <name> default: '<default>'" (with
\* "no default" in place of the quoted value exactly when the default's string
\* form is empty, which only an empty string default has) and then a separator
\* line of blanks; on an empty registry it returns the header line alone; the
\* call changes neither the registry nor any output cell.
C11_HelpListing ==
    [][listing' # listing =>
          LET ls == Lines(listing')
          IN /\ Len(ls) = 1 + 2 * Len(envs)
             /\ ls[1] = <<"Environment variables:">>
             /\ \A k \in 1..Len(envs) :
                   LET form == FormatV(envs[k].varType, envs[k].defaultValue)
                   IN /\ ls[2 * k] =
                            <<"  ", envs[k].name, " default: ">>
                               \o (IF form = <<>> THEN <<"no default">>
                                   ELSE <<"'">> \o form \o <<"'">>)
                      /\ form = <<>> <=> (/\ envs[k].varType = "string"
                                          /\ envs[k].defaultValue = Empty)
                      /\ ls[2 * k + 1] = <<"       ">>
             /\ envs' = envs
             /\ value' = value
             /\ envValue' = envValue
             /\ ret' = ret]_vars

\* Help was called after a Parse filled the cell of the second of two
\* descriptors: a string without default, then a float with default 1.5
C11_Witness ==
    /\ fresh
    /\ Len(envs) = 2
    /\ envs[2].varType = "float"
    /\ value[2] # FloatZero
    /\ Lines(listing) =
          << <<"Environment variables:">>,
             <<"  ", "HOST", " default: ", "no default">>,
             <<"       ">>,
             <<"  ", "PORT", " default: ", "'", "1", ".", "5", "'">>,
             <<"       ">> >>

\* C12: under registrations, Parse calls and Help calls the registry only
\* grows at its end: a step leaves every registered descriptor in its place
\* with its name, kind, required flag and default, a registration appends
\* exactly one descriptor whose new cell holds the zero value of its kind and
\* writes no other cell, and no step but a Parse writes a cell.
C12_AppendOnly ==
    [][/\ Len(envs') \in {Len(envs), Len(envs) + 1}
       /\ \A k \in 1..Len(envs) : envs'[k] = envs[k]
       /\ Len(value') = Len(envs')
       /\ Len(envs') = Len(envs) + 1 =>
             /\ value'[Len(envs')] = ZeroOf(envs'[Len(envs')].varType)
             /\ \A k \in 1..Len(envs) : value'[k] = value[k]
       /\ (streak' = 0 \/ listing' # listing) =>
             \A k \in 1..Len(envs) : value'[k] = value[k]]_vars

\* a second descriptor was registered after a Parse had converted 8080 into
\* the first one's cell, and Help was called: the first cell still holds
\* 8080, the new cell its zero value and not yet its default
C12_Witness ==
    /\ streak = 0
    /\ Len(envs) = 2
    /\ envs[1].varType = "integer"
    /\ value[1] = I64(8080)
    /\ value[2] = ZeroOf(envs[2].varType)
    /\ envs[2].defaultValue # value[2]
    /\ Len(Lines(listing)) = 5

\* C13: a Parse leaves the cell of every descriptor whose non-empty value
\* fails conversion exactly as it was before the call, neither zeroed nor
\* set to the default, and returns an error.
C13_FailedConversionKeepsCell ==
    [][streak' > 0 =>
          \A k \in 1..Len(envs) :
              Invalid(k) => /\ value'[k] = value[k]
                            /\ ret' # NilErr]_vars

\* an integer descriptor still shows the 8080 of an earlier Parse, and an
\* optional boolean one the default of an earlier Parse, after a Parse that
\* failed to convert their present values
C13_Witness ==
    /\ fresh
    /\ ret # NilErr
    /\ \E k \in 1..Len(envs) :
          /\ Invalid(k)
          /\ envs[k].varType = "integer"
          /\ value[k] = I64(8080)
          /\ value[k] # envs[k].defaultValue

====
